---- MODULE Spec2Model ----
(***************************************************************************)
(* Model of utils/helpers.py (get_product_ids) and of the parts of         *)
(* tests/test_api/test_get_product.py that use it: the two module-level    *)
(* calls that build the parametrisation lists, and test_false_ids.         *)
(***************************************************************************)
EXTENDS Integers, Sequences, FiniteSets, TLC

(***************************************************************************)
(* Bounds of the model.                                                    *)
(***************************************************************************)
\* longest collection body the service returns in Spec
MaxLen == 3
\* invocations of get_product_ids in one behaviour of Spec
MaxCalls == 2
\* largest collection size in SpecSize
MaxCount == 50
\* longest response text in SpecCase
MaxText == 3

(***************************************************************************)
(* Python float arithmetic (IEEE 754 binary64, round to nearest, ties to   *)
(* even), as far as line 24 of helpers.py uses it:                         *)
(*     int(len(product_ids) * (percentage / 100))                          *)
(* A positive float is [m |-> <<l1, l2, l3, l4>>, e |-> exponent]: the     *)
(* 53-bit significand is  l1 * 2^42 + l2 * 2^28 + l3 * 2^14 + l4  with     *)
(* 2^10 <= l1 < 2^11 and l2, l3, l4 < 2^14, and the value is               *)
(* significand * 2^e.  Zero is [m |-> <<>>, e |-> 0].  The significand is  *)
(* kept in limbs because it does not fit the checker's integers.  The      *)
(* operands are small: the divisor, the dividend and the multiplier are    *)
(* below 2^13, and the truncated result is below 2^25.                     *)
(***************************************************************************)
FloatZero == [m |-> <<>>, e |-> 0]

RECURSIVE Pow2(_)
Pow2(n) == IF n = 0 THEN 1 ELSE 2 * Pow2(n - 1)

\* the base of the three low limbs, and the range of the top limb
LimbBase == Pow2(14)
TopLow   == Pow2(10)
TopHigh  == Pow2(11)

\* the number of binary digits of a natural number
RECURSIVE BitLength(_)
BitLength(n) == IF n = 0 THEN 0 ELSE 1 + BitLength(n \div 2)

\* significand + 1, renormalised when it reaches 2^53
FloatInc(m, e) ==
    LET s4 == m[4] + 1
        s3 == m[3] + (s4 \div LimbBase)
        s2 == m[2] + (s3 \div LimbBase)
        s1 == m[1] + (s2 \div LimbBase)
    IN  IF s1 = TopHigh
        THEN [m |-> <<TopLow, 0, 0, 0>>, e |-> e + 1]
        ELSE [m |-> <<s1, s2 % LimbBase, s3 % LimbBase, s4 % LimbBase>>, e |-> e]

\* round to nearest, ties to even: m is the truncated significand, and the
\* part dropped is more than (above) or exactly (half) half a unit of m
RoundNearestEven(m, e, above, half) ==
    IF above \/ (half /\ m[4] % 2 = 1) THEN FloatInc(m, e) ELSE [m |-> m, e |-> e]

\* the largest k >= 0 with q * 2^k <= p  (p >= q > 0)
RECURSIVE ShiftDown(_, _)
ShiftDown(p, q) == IF 2 * q <= p THEN 1 + ShiftDown(p, 2 * q) ELSE 0

\* the least j >= 0 with p * 2^j >= q  (p > 0)
RECURSIVE ShiftUp(_, _)
ShiftUp(p, q) == IF p >= q THEN 0 ELSE 1 + ShiftUp(2 * p, q)

\* p / q for naturals p and q > 0: Python's true division of two ints
FloatDiv(p, q) ==
    IF p = 0 THEN FloatZero
    ELSE LET k   == IF p >= q THEN ShiftDown(p, q) ELSE 0 - ShiftUp(p, q)
             num == IF k >= 0 THEN p ELSE p * Pow2(0 - k)
             den == IF k >= 0 THEN q * Pow2(k) ELSE q
             \* num / den is in [1, 2): long division, 10 + 14 + 14 + 14 bits
             t1  == (num - den) * TopLow
             t2  == (t1 % den) * LimbBase
             t3  == (t2 % den) * LimbBase
             t4  == (t3 % den) * LimbBase
             rem == t4 % den
         IN  RoundNearestEven(
                 <<TopLow + (t1 \div den), t2 \div den, t3 \div den, t4 \div den>>,
                 k - 52, 2 * rem > den, 2 * rem = den)

\* n * x for a natural n and a float x: Python's int * float
FloatMulNat(n, x) ==
    IF n = 0 \/ x.m = <<>> THEN FloatZero
    ELSE LET t4   == n * x.m[4]
             t3   == n * x.m[3] + (t4 \div LimbBase)
             t2   == n * x.m[2] + (t3 \div LimbBase)
             t1   == n * x.m[1] + (t2 \div LimbBase)
             p4   == t4 % LimbBase
             p3   == t3 % LimbBase
             p2   == t2 % LimbBase
             \* the exact product has 53 + s bits: s are dropped
             s    == BitLength(t1) - 11
             d    == Pow2(s)
             up   == LimbBase \div d
             low  == p4 % d
             kept == << t1 \div d,
                        (p2 \div d) + (t1 % d) * up,
                        (p3 \div d) + (p2 % d) * up,
                        (p4 \div d) + (p3 % d) * up >>
         IN  IF s = 0 THEN [m |-> kept, e |-> x.e]
             ELSE RoundNearestEven(kept, x.e + s, 2 * low > d, 2 * low = d)

\* int(x) for a float x >= 0: the integral part
FloatTrunc(x) ==
    IF x.m = <<>> THEN 0
    ELSE LET drop == 0 - x.e
         IN  CASE drop >= 53 -> 0
               [] drop >= 42 /\ drop < 53 -> x.m[1] \div Pow2(drop - 42)
               [] drop >= 28 /\ drop < 42 ->
                      (x.m[1] * LimbBase + x.m[2]) \div Pow2(drop - 28)

Max(a, b) == IF a >= b THEN a ELSE b

\* NumSelected without the minimum of one
NumSelectedNoMinimum(count, pct) ==
    FloatTrunc(FloatMulNat(count, FloatDiv(pct, 100)))

\* line 24: max(1, int(len(product_ids) * (percentage / 100)))
NumSelected(count, pct) ==
    Max(1, FloatTrunc(FloatMulNat(count, FloatDiv(pct, 100))))

(***************************************************************************)
(* The inputs.                                                             *)
(***************************************************************************)
\* collection endpoints a caller may pass
Urls == {"/products", "/carts"}

\* the percentages a caller may pass (whole numbers): the documented range
\* is 1-100 (helpers.py line 8), and the function does not validate it
Percentages == {0, 1, 50, 100, 150, 250}

\* the default of the parameter percentage (helpers.py line 4)
DefaultPercentage == 100

\* keyword arguments of a call of get_product_ids that passes a url
DirectArgs ==
    {[url |-> u] : u \in Urls}
        \cup {[url |-> u, percentage |-> p] : u \in Urls, p \in Percentages}

\* status codes the service may answer with
Statuses == {200, 201, 404, 500}

\* identifiers the service assigns
Ids == {1, 2}

\* the items of a collection body: products with an id, and an object
\* that has no "id" key
Items == {[id |-> i] : i \in Ids} \cup {[title |-> "t"]}

RECURSIVE SeqsUpTo(_, _)
SeqsUpTo(S, n) ==
    IF n = 0 THEN {<<>>}
    ELSE LET shorter == SeqsUpTo(S, n - 1)
         IN  shorter \cup {Append(s, x) : s \in {t \in shorter : Len(t) = n - 1}, x \in S}

\* what get(url) may return: a status, and a body that is a JSON list of
\* items or is not JSON at all
Responses ==
    {[status |-> st, json |-> TRUE, items |-> b] :
        st \in Statuses, b \in SeqsUpTo(Items, MaxLen)}
        \cup {[status |-> st, json |-> FALSE, items |-> <<>>] : st \in Statuses}

NoResponse == [status |-> 0, json |-> FALSE, items |-> <<>>]

(***************************************************************************)
(* The state: one invocation of get_product_ids at a time (the program is  *)
(* single-threaded), the import of the test module, and one run of a       *)
(* test_false_ids case.                                                    *)
(***************************************************************************)
VARIABLES
    pc,             \* the line get_product_ids is at; "returned", "raised"
    site,           \* who called: "direct", or the test module's "line27", "line28"
    url,            \* parameter url
    percentage,     \* parameter percentage
    response,       \* local response
    product_ids,    \* local product_ids
    num_selected,   \* local num_selected
    result,         \* the list returned
    exc,            \* the exception raised, "none" if none
    requests,       \* the urls this invocation has sent a GET to
    parsed,         \* this invocation has called response.json()
    sampled,        \* this invocation has called random.sample
    calls,          \* invocations so far
    entered,        \* invocations whose arguments bound
    network,        \* GET requests sent by get_product_ids so far
    modulePc,       \* the statement the import of the test module is at
    positive_product_ids,   \* test module global
    negative_product_ids,   \* test module global
    casePc,         \* the line a test_false_ids case is at
    invalid_id,     \* its parameter
    caseResponse,   \* its local response
    caseRequests,   \* the GET requests the case has sent
    verdict         \* "none", "passed" or "failed"

callVars   == <<pc, site, url, percentage, response, product_ids, num_selected,
                result, exc, requests, parsed, sampled, calls, entered, network>>
moduleVars == <<modulePc, positive_product_ids, negative_product_ids>>
caseVars   == <<casePc, invalid_id, caseResponse, caseRequests, verdict>>
vars       == <<callVars, moduleVars, caseVars>>

ModuleSites == {"line27", "line28"}

\* test_get_product.py lines 23 and 24
positive_coverage == 100
negative_coverage == 1

CallInit ==
    /\ pc = "idle" /\ site = "none" /\ url = "" /\ percentage = 0
    /\ response = NoResponse /\ product_ids = <<>> /\ num_selected = 0
    /\ result = <<>> /\ exc = "none" /\ requests = <<>>
    /\ parsed = FALSE /\ sampled = FALSE
    /\ calls = 0 /\ entered = 0 /\ network = 0

ModuleInit ==
    /\ modulePc = "line27"
    /\ positive_product_ids = <<>>
    /\ negative_product_ids = <<>>

CaseInit ==
    /\ casePc = "idle" /\ invalid_id = "" /\ caseRequests = <<>>
    /\ caseResponse = [status |-> 0, text |-> <<>>]
    /\ verdict = "none"

Init == CallInit /\ ModuleInit /\ CaseInit

(***************************************************************************)
(* get_product_ids(url, percentage=100), helpers.py lines 4-26.            *)
(***************************************************************************)
\* line 4: the call binds its keyword arguments; url has no default, so a
\* call without it raises TypeError before the body runs
Call(caller, args) ==
    /\ calls < MaxCalls
    /\ pc \in {"idle", "returned", "raised"}
    \* a module-level call that is over hands its outcome to the import first
    /\ site # modulePc
    /\ calls' = calls + 1
    /\ site' = caller
    /\ response' = NoResponse /\ product_ids' = <<>> /\ num_selected' = 0
    /\ result' = <<>> /\ requests' = <<>>
    /\ parsed' = FALSE /\ sampled' = FALSE
    /\ percentage' = IF "percentage" \in DOMAIN args
                     THEN args.percentage ELSE DefaultPercentage
    /\ IF "url" \in DOMAIN args
       THEN /\ url' = args.url
            /\ pc' = "line12" /\ exc' = "none"
            /\ entered' = entered + 1
       ELSE /\ url' = ""
            /\ pc' = "raised" /\ exc' = "TypeError"
            /\ UNCHANGED entered
    /\ UNCHANGED network

\* a caller that passes a url
DirectCall ==
    /\ \E args \in DirectArgs : Call("direct", args)
    /\ UNCHANGED <<moduleVars, caseVars>>

\* Get with a retry: a failed request is sent a second time
GetWithRetry ==
    /\ pc = "line12"
    /\ \E r \in Responses :
          /\ response' = r
          /\ requests' = IF r.status = 200 THEN <<url>> ELSE <<url, url>>
          /\ network' = network + (IF r.status = 200 THEN 1 ELSE 2)
    /\ pc' = "line14"
    /\ UNCHANGED <<site, url, percentage, product_ids, num_selected, result, exc,
                   parsed, sampled, calls, entered, moduleVars, caseVars>>

\* line 12: response = get(url)
Get ==
    /\ pc = "line12"
    /\ \E r \in Responses : response' = r
    /\ requests' = Append(requests, url)
    /\ network' = network + 1
    /\ pc' = "line14"
    /\ UNCHANGED <<site, url, percentage, product_ids, num_selected, result, exc,
                   parsed, sampled, calls, entered, moduleVars, caseVars>>

\* CheckStatus that raises only for the statuses from 400 on
CheckStatusErrorsOnly ==
    /\ pc = "line14"
    /\ IF response.status >= 400
       THEN pc' = "raised" /\ exc' = "Exception"
       ELSE pc' = "line17" /\ exc' = exc
    /\ UNCHANGED <<site, url, percentage, response, product_ids, num_selected,
                   result, requests, parsed, sampled, calls, entered, network,
                   moduleVars, caseVars>>

\* lines 14-15: if response.status_code != 200: raise Exception(...)
CheckStatus ==
    /\ pc = "line14"
    /\ IF response.status # 200
       THEN pc' = "raised" /\ exc' = "Exception"
       ELSE pc' = "line17" /\ exc' = exc
    /\ UNCHANGED <<site, url, percentage, response, product_ids, num_selected,
                   result, requests, parsed, sampled, calls, entered, network,
                   moduleVars, caseVars>>

\* lines 17-18: products = response.json();
\*              product_ids = [product["id"] for product in products]
Parse ==
    /\ pc = "line17"
    /\ parsed' = TRUE
    /\ IF ~response.json
       THEN pc' = "raised" /\ exc' = "JSONDecodeError" /\ UNCHANGED product_ids
       ELSE IF \E i \in 1..Len(response.items) : "id" \notin DOMAIN response.items[i]
       THEN pc' = "raised" /\ exc' = "KeyError" /\ UNCHANGED product_ids
       ELSE /\ product_ids' = [i \in 1..Len(response.items) |-> response.items[i].id]
            /\ pc' = "line20" /\ exc' = exc
    /\ UNCHANGED <<site, url, percentage, response, num_selected, result, requests,
                   sampled, calls, entered, network, moduleVars, caseVars>>

\* CheckEmpty that lets the empty list through
CheckEmptySkipped ==
    /\ pc = "line20"
    /\ pc' = "line24" /\ exc' = exc
    /\ UNCHANGED <<site, url, percentage, response, product_ids, num_selected,
                   result, requests, parsed, sampled, calls, entered, network,
                   moduleVars, caseVars>>

\* lines 20-21: if not product_ids: raise ValueError("No products found ...")
CheckEmpty ==
    /\ pc = "line20"
    /\ IF product_ids = <<>>
       THEN pc' = "raised" /\ exc' = "ValueError: No products found"
       ELSE pc' = "line24" /\ exc' = exc
    /\ UNCHANGED <<site, url, percentage, response, product_ids, num_selected,
                   result, requests, parsed, sampled, calls, entered, network,
                   moduleVars, caseVars>>

\* line 24: num_selected = max(1, int(len(product_ids) * (percentage / 100)))
ComputeSize ==
    /\ pc = "line24"
    /\ num_selected' = NumSelected(Len(product_ids), percentage)
    /\ pc' = "line26"
    /\ UNCHANGED <<site, url, percentage, response, product_ids, result, exc,
                   requests, parsed, sampled, calls, entered, network,
                   moduleVars, caseVars>>

\* the one-to-one choices of k positions out of 1..n, in every order
Injections(k, n) ==
    {f \in [1..k -> 1..n] : \A i, j \in 1..k : i # j => f[i] # f[j]}

\* SampleResults with replacement: k independent draws (random.choices)
SampleWithReplacement(population, k) ==
    {[i \in 1..k |-> population[f[i]]] : f \in [1..k -> 1..Len(population)]}

\* what random.sample(population, k) may return when 0 <= k <= len(population):
\* the elements at k distinct positions, in any order
SampleResults(population, k) ==
    {[i \in 1..k |-> population[f[i]]] : f \in Injections(k, Len(population))}

\* Sample without the size check: a sample larger than the population is
\* drawn with replacement instead of raising
SampleUnchecked ==
    /\ pc = "line26"
    /\ sampled' = TRUE
    /\ IF num_selected > Len(product_ids)
       THEN result' \in SampleWithReplacement(product_ids, num_selected)
       ELSE result' \in SampleResults(product_ids, num_selected)
    /\ pc' = "returned" /\ exc' = exc
    /\ UNCHANGED <<site, url, percentage, response, product_ids, num_selected,
                   requests, parsed, calls, entered, network, moduleVars, caseVars>>

\* line 26: return random.sample(product_ids, num_selected); random.sample
\* raises ValueError when the sample is larger than the population
Sample ==
    /\ pc = "line26"
    /\ sampled' = TRUE
    /\ IF num_selected > Len(product_ids)
       THEN /\ pc' = "raised" /\ exc' = "ValueError: Sample larger than population"
            /\ UNCHANGED result
       ELSE /\ result' \in SampleResults(product_ids, num_selected)
            /\ pc' = "returned" /\ exc' = exc
    /\ UNCHANGED <<site, url, percentage, response, product_ids, num_selected,
                   requests, parsed, calls, entered, network, moduleVars, caseVars>>

(***************************************************************************)
(* The import of tests/test_api/test_get_product.py, lines 23-28: the two  *)
(* module-level calls that build the parametrisation lists.                *)
(***************************************************************************)
Coverage(line) == IF line = "line27" THEN positive_coverage ELSE negative_coverage

\* lines 27 and 28: get_product_ids(percentage=...), with no url
ModuleCall ==
    /\ modulePc \in ModuleSites
    /\ Call(modulePc, [percentage |-> Coverage(modulePc)])
    /\ UNCHANGED <<moduleVars, caseVars>>

\* the call of line 27 or 28 is over: its value is assigned and the import
\* goes on, or its exception ends the import
ModuleResume ==
    /\ site = modulePc
    /\ pc \in {"returned", "raised"}
    /\ IF pc = "raised"
       THEN modulePc' = "error"
                /\ UNCHANGED <<positive_product_ids, negative_product_ids>>
       ELSE IF modulePc = "line27"
       THEN modulePc' = "line28" /\ positive_product_ids' = result
                /\ UNCHANGED negative_product_ids
       ELSE modulePc' = "collected" /\ negative_product_ids' = result
                /\ UNCHANGED positive_product_ids
    /\ UNCHANGED <<callVars, caseVars>>

Next ==
    \/ DirectCall
    \/ Get
    \/ CheckStatus
    \/ Parse
    \/ CheckEmpty
    \/ ComputeSize
    \/ Sample
    \/ ModuleCall
    \/ ModuleResume

Spec == Init /\ [][Next]_vars

(***************************************************************************)
(* The size computation on larger collections: get_product_ids has         *)
(* fetched and parsed a collection of count products with the ids          *)
(* 1..count and is at line 24.                                             *)
(***************************************************************************)
\* the documented range of percentage (helpers.py line 8)
PercentageRange == 1..100

Catalogue(count) == [i \in 1..count |-> [id |-> i]]

SizeInit ==
    /\ \E count \in 1..MaxCount :
          /\ response = [status |-> 200, json |-> TRUE, items |-> Catalogue(count)]
          /\ product_ids = [i \in 1..count |-> i]
    /\ percentage \in PercentageRange
    /\ pc = "line24" /\ site = "direct" /\ url = "/products"
    /\ num_selected = 0 /\ result = <<>> /\ exc = "none"
    /\ requests = <<"/products">> /\ parsed = TRUE /\ sampled = FALSE
    /\ calls = 1 /\ entered = 1 /\ network = 1
    /\ ModuleInit /\ CaseInit

SpecSize == SizeInit /\ [][ComputeSize]_vars

(***************************************************************************)
(* test_false_ids(invalid_id), test_get_product.py lines 80-91.            *)
(***************************************************************************)
\* line 80, as line 83 formats them into the url
InvalidIds == <<"-1", "0", "10000", "abc", "!@#">>

\* tests/expected.py
STATUS_NOT_FOUND == 404
STATUS_BAD_REQUEST == 400
TEXT_INVALID_ID == <<>>

\* response texts are sequences of characters
Whitespace == {" "}
Chars == Whitespace \cup {"x"}

CaseStatuses == {200, 400, 404, 500}

CaseResponses ==
    {[status |-> st, text |-> t] : st \in CaseStatuses, t \in SeqsUpTo(Chars, MaxText)}

\* Strip that strips nothing
StripNothing(text) == text

\* str.strip(): without the leading and trailing whitespace
Strip(text) ==
    LET solid == {i \in 1..Len(text) : text[i] \notin Whitespace}
    IN  IF solid = {} THEN <<>>
        ELSE SubSeq(text,
                    CHOOSE i \in solid : \A j \in solid : i <= j,
                    CHOOSE i \in solid : \A j \in solid : i >= j)

\* the runner starts the case of one parameter
RunCase ==
    /\ casePc \in {"idle", "done"}
    /\ \E k \in 1..Len(InvalidIds) : invalid_id' = InvalidIds[k]
    /\ casePc' = "line83"
    /\ caseRequests' = <<>>
    /\ caseResponse' = [status |-> 0, text |-> <<>>]
    /\ verdict' = "none"
    /\ UNCHANGED <<callVars, moduleVars>>

\* line 83: response = get(f"{URL}/{invalid_id}")
CaseGet ==
    /\ casePc = "line83"
    /\ caseResponse' \in CaseResponses
    /\ caseRequests' = Append(caseRequests, invalid_id)
    /\ casePc' = "line87"
    /\ UNCHANGED <<invalid_id, verdict, callVars, moduleVars>>

\* lines 86-87: assert response.status_code in expected_statuses
CaseAssertStatus ==
    /\ casePc = "line87"
    /\ IF caseResponse.status \in {STATUS_NOT_FOUND, STATUS_BAD_REQUEST}
       THEN casePc' = "line90" /\ verdict' = verdict
       ELSE casePc' = "done" /\ verdict' = "failed"
    /\ UNCHANGED <<invalid_id, caseResponse, caseRequests, callVars, moduleVars>>

\* lines 90-91: assert response.text.strip() == expected.TEXT_INVALID_ID
CaseAssertText ==
    /\ casePc = "line90"
    /\ verdict' = IF Strip(caseResponse.text) = TEXT_INVALID_ID
                  THEN "passed" ELSE "failed"
    /\ casePc' = "done"
    /\ UNCHANGED <<invalid_id, caseResponse, caseRequests, callVars, moduleVars>>

CaseNext ==
    \/ RunCase
    \/ CaseGet
    \/ CaseAssertStatus
    \/ CaseAssertText

SpecCase == Init /\ [][CaseNext]_vars

(***************************************************************************)
(* The claims.                                                             *)
(***************************************************************************)
\* floor(count * pct / 100), at least 1, in exact arithmetic
ExactSize(count, pct) == Max(1, (count * pct) \div 100)

Occurrences(s, x) == Cardinality({i \in 1..Len(s) : s[i] = x})

NoRepeats(s) == \A i, j \in 1..Len(s) : i # j => s[i] # s[j]

\* the ids of the body this invocation fetched, in the body's order
FetchedIds == [i \in 1..Len(response.items) |-> response.items[i].id]

\* C1: after a fetch with status 200 of count >= 1 items, for a percentage
\* in 1..100, the size chosen at line 24, and the length of the list
\* returned, is max(1, floor(count * percentage / 100)).
C1_ExactSampleSize ==
    (response.status = 200 /\ Len(product_ids) >= 1 /\ percentage \in PercentageRange)
        => /\ pc = "line26" => num_selected = ExactSize(Len(product_ids), percentage)
           /\ pc = "returned" => Len(result) = ExactSize(Len(product_ids), percentage)

\* C2: a call that returns, returns at least one identifier.
C2_SampleNonEmpty == pc = "returned" => Len(result) >= 1

\* C2 witness: a call returned one identifier where the percentage of the
\* count rounds down to zero.
C2_Witness ==
    /\ pc = "returned"
    /\ Len(product_ids) * percentage < 100
    /\ Len(result) = 1

\* C3 as stated: every identifier returned is an id of the fetched body, and
\* none appears twice in the list returned.
C3_NoIdentifierTwice ==
    pc = "returned" =>
        /\ \A i \in 1..Len(result) : \E j \in 1..Len(FetchedIds) : result[i] = FetchedIds[j]
        /\ NoRepeats(result)

\* C3 amended: every identifier returned is an id of the fetched body, and it
\* appears in the list returned at most as often as it appears in that body.
C3_NoItemTwice ==
    pc = "returned" =>
        /\ \A i \in 1..Len(result) : \E j \in 1..Len(FetchedIds) : result[i] = FetchedIds[j]
        /\ \A x \in Ids : Occurrences(result, x) <= Occurrences(FetchedIds, x)

\* C3 witness: a call returned two different identifiers.
C3_Witness ==
    /\ pc = "returned"
    /\ Len(result) >= 2
    /\ result[1] # result[2]

\* C4: once the status check has run on a response whose status is not 200,
\* the call has raised the fetch error, has not parsed the body and returns
\* nothing; and the fetch error is raised for no response of status 200.
C4_FetchErrorOnFailure ==
    /\ (requests # <<>> /\ pc # "line14" /\ response.status # 200)
           => /\ pc = "raised" /\ exc = "Exception"
              /\ ~parsed /\ product_ids = <<>> /\ result = <<>>
    /\ exc = "Exception" => response.status # 200

\* C4 witness: the fetch error was raised on a 404 that carried a body.
C4_Witness ==
    /\ pc = "raised" /\ exc = "Exception"
    /\ response.status = 404 /\ response.items # <<>>

\* C5: once the emptiness check has run on a 200 response whose body is the
\* empty list, the call has raised the empty-collection error, which is not
\* the fetch error, without calling random.sample and without a result.
C5_EmptyCollectionError ==
    (response.status = 200 /\ response.json /\ response.items = <<>>
            /\ pc \notin {"line14", "line17", "line20"})
        => /\ pc = "raised" /\ exc = "ValueError: No products found"
           /\ exc # "Exception"
           /\ ~sampled /\ result = <<>>

\* C5 witness: the empty-collection error was raised.
C5_Witness ==
    /\ pc = "raised" /\ exc = "ValueError: No products found"
    /\ response.status = 200 /\ product_ids = <<>>

\* C6: an invocation whose body runs sends exactly one GET, to its url, on
\* every path; over all invocations there are as many GETs as invocations
\* (none is answered without a request, none is sent twice).
C6_OneGetPerInvocation ==
    /\ pc = "line12" => requests = <<>>
    /\ (pc \notin {"idle", "line12"} /\ exc # "TypeError") => requests = <<url>>
    /\ network = entered - (IF pc = "line12" THEN 1 ELSE 0)

\* C6 witness: a second invocation returned, and two GETs were sent in all.
C6_Witness ==
    /\ pc = "returned" /\ calls = 2 /\ entered = 2
    /\ network = 2 /\ requests = <<url>>

\* C7: each of the two module-level invocations (line 27 with percentage 100,
\* line 28 with percentage 1) queries the collection endpoint: when it is
\* over it has sent one GET.
C7_SetupQueriesCollection ==
    (site \in ModuleSites /\ pc \in {"returned", "raised"}) => Len(requests) = 1

\* C10: when percentage > 100 makes floor(count * percentage / 100) exceed
\* the count, a call that reaches random.sample either raises, or returns
\* count identifiers none of which is repeated.
C10_OversizedSample ==
    (sampled /\ percentage > 100
            /\ (Len(product_ids) * percentage) \div 100 > Len(product_ids))
        => \/ /\ pc = "raised"
              /\ exc = "ValueError: Sample larger than population"
              /\ result = <<>>
           \/ /\ pc = "returned"
              /\ Len(result) = Len(product_ids)
              /\ NoRepeats(result)

\* C10 witness: random.sample raised for a percentage above 100.
C10_Witness ==
    /\ pc = "raised" /\ exc = "ValueError: Sample larger than population"
    /\ percentage > 100 /\ num_selected > Len(product_ids)

\* the text is the expected text with whitespace around it
MatchesUpToWhitespace(text, expected) ==
    \E a \in 0..Len(text) : \E b \in a..Len(text) :
        /\ SubSeq(text, a + 1, b) = expected
        /\ \A i \in (1..a) \cup ((b + 1)..Len(text)) : text[i] \in Whitespace

CaseStatusExpected == caseResponse.status \in {STATUS_NOT_FOUND, STATUS_BAD_REQUEST}

\* C9 as stated: a finished case has sent exactly one GET, for its
\* identifier, and has passed if and only if the status is 404 or 400 and
\* the body text is exactly the expected constant.
C9_PassIffExactText ==
    casePc = "done" =>
        /\ caseRequests = <<invalid_id>>
        /\ verdict \in {"passed", "failed"}
        /\ verdict = "passed" <=>
               (CaseStatusExpected /\ caseResponse.text = TEXT_INVALID_ID)

\* C9 amended: a finished case has sent exactly one GET, for its identifier,
\* and has passed if and only if the status is 404 or 400 and the body text
\* is the expected constant with only whitespace before and after it.
C9_PassIffStrippedText ==
    casePc = "done" =>
        /\ caseRequests = <<invalid_id>>
        /\ verdict \in {"passed", "failed"}
        /\ verdict = "passed" <=>
               (CaseStatusExpected
                    /\ MatchesUpToWhitespace(caseResponse.text, TEXT_INVALID_ID))

\* C9 witness: a case passed on a body that is not exactly the constant.
C9_Witness ==
    /\ casePc = "done" /\ verdict = "passed"
    /\ caseResponse.text # TEXT_INVALID_ID
====
